---- MODULE Spec2Model ----
(***************************************************************************)
(* Mind-map editor: the outline-text codec (dataToMermaid, mermaidToData)  *)
(* and the expansion reconciler (setMermaid) of                            *)
(* src/app/components/MindMap.tsx, modelled over character sequences.      *)
(*                                                                         *)
(* A JavaScript string is a sequence of one-character strings.  A NodeData *)
(* object is a record; an optional property (direction, expanded) that is  *)
(* undefined is a field missing from the record's DOMAIN.  A reference to  *)
(* a node of the tree under construction is the path of child indices     *)
(* that leads to it from the root.                                         *)
(***************************************************************************)
EXTENDS Integers, Sequences, FiniteSets, TLC

(***************************************************************************)
(* JavaScript string primitives used by the codec                          *)
(***************************************************************************)

\* the characters String.prototype.trim and the regex class \s remove
\* (those of them that can occur inside one line of the model's texts)
WhiteSpace == {" ", "\t"}

Min(a, b) == IF a < b THEN a ELSE b

Max(a, b) == IF a > b THEN a ELSE b

\* s.startsWith(p)
startsWith(s, p) == Len(p) <= Len(s) /\ SubSeq(s, 1, Len(p)) = p

\* s.endsWith(p)
endsWith(s, p) == Len(p) <= Len(s) /\ SubSeq(s, Len(s) - Len(p) + 1, Len(s)) = p

\* s.substring(a, b): 0-based, end exclusive; arguments are clamped to
\* [0, s.length] and swapped when a > b
substring(s, a, b) ==
    LET ca == Max(0, Min(a, Len(s)))
        cb == Max(0, Min(b, Len(s)))
        lo == Min(ca, cb)
        hi == Max(ca, cb)
    IN  SubSeq(s, lo + 1, hi)

\* s.indexOf(p, k): 0-based index of the first occurrence
\* at or after k, -1 when absent
RECURSIVE indexFrom(_, _, _)
indexFrom(s, p, k) ==
    IF k + Len(p) > Len(s) THEN -1
    ELSE IF p = <<>> \/ (s[k + 1] = p[1] /\ SubSeq(s, k + 1, k + Len(p)) = p) THEN k
         ELSE indexFrom(s, p, k + 1)

\* s.indexOf(p)
indexOf(s, p) == indexFrom(s, p, 0)

\* s.includes(p)
includes(s, p) == indexOf(s, p) # -1

\* s.replace(/pat/g, rep): leftmost, non-overlapping, single pass
RECURSIVE replaceAll(_, _, _)
replaceAll(s, pat, rep) ==
    LET k == indexOf(s, pat)
    IN  IF k = -1 THEN s
        ELSE SubSeq(s, 1, k) \o rep
                 \o replaceAll(SubSeq(s, k + Len(pat) + 1, Len(s)), pat, rep)

\* the length of the longest whitespace prefix of the line that extends the
\* first k characters
RECURSIVE leadingSpace(_, _)
leadingSpace(line, k) ==
    IF k < Len(line) /\ line[k + 1] \in WhiteSpace THEN leadingSpace(line, k + 1) ELSE k

\* line.match(/^(\s*)/)[1].length: the number of leading whitespace characters
getIndent(line) == leadingSpace(line, 0)

\* the length of s without its trailing whitespace, s[1..k] being what is
\* left so far
RECURSIVE trimmedLen(_, _)
trimmedLen(s, k) ==
    IF k > 0 /\ s[k] \in WhiteSpace THEN trimmedLen(s, k - 1) ELSE k

trimEnd(s) == SubSeq(s, 1, trimmedLen(s, Len(s)))

\* s.trim()
trim(s) == trimEnd(SubSeq(s, getIndent(s) + 1, Len(s)))

\* c.toLowerCase() on the letters the model's texts use
lowerChar(c) ==
    CASE c = "M" -> "m" [] c = "I" -> "i" [] c = "N" -> "n" [] c = "D" -> "d"
      [] c = "A" -> "a" [] c = "P" -> "p" [] c = "R" -> "r" [] c = "L" -> "l"
      [] c = "X" -> "x" [] OTHER -> c

\* s.toLowerCase()
toLowerCase(s) == [k \in 1..Len(s) |-> lowerChar(s[k])]

\* mermaid.split('\n')
RECURSIVE split(_)
split(s) ==
    LET k == indexOf(s, <<"\n">>)
    IN  IF k = -1 THEN <<s>>
        ELSE <<SubSeq(s, 1, k)>> \o split(SubSeq(s, k + 2, Len(s)))

\* lines.join('\n')
RECURSIVE join(_)
join(lines) ==
    IF lines = <<>> THEN <<>>
    ELSE IF Len(lines) = 1 THEN lines[1]
    ELSE lines[1] \o <<"\n">> \o join(Tail(lines))

\* '  '.repeat(depth)
RECURSIVE repeat(_, _)
repeat(s, n) == IF n <= 0 THEN <<>> ELSE s \o repeat(s, n - 1)

\* lines.filter(line => line.trim()): keeps the lines that are not blank
RECURSIVE filterNonBlank(_)
filterNonBlank(lines) ==
    IF lines = <<>> THEN <<>>
    ELSE IF trim(Head(lines)) # <<>>
         THEN <<Head(lines)>> \o filterNonBlank(Tail(lines))
         ELSE filterNonBlank(Tail(lines))

(***************************************************************************)
(* Literal tokens of the outline format                                    *)
(***************************************************************************)

Quote == <<"\"">>

QuotToken == <<"#", "q", "u", "o", "t", ";">>

EntQuot == <<"&", "q", "u", "o", "t", ";">>

EntLt == <<"&", "l", "t", ";">>

EntGt == <<"&", "g", "t", ";">>

EntAmp == <<"&", "a", "m", "p", ";">>

TagRight == <<"[", "R", "]", " ">>

TagLeft == <<"[", "L", "]", " ">>

Header == <<"m", "i", "n", "d", "m", "a", "p">>

RootWord == <<"r", "o", "o", "t">>

PlaceholderTopic == <<"R", "o", "o", "t">>

\* the fixed identifier 'root' of a parsed root node
RootId == <<"r", "o", "o", "t">>

\* the key prefix 'topic:' of the expansion table
TopicKeyPrefix == <<"t", "o", "p", "i", "c", ":">>

\* the delimiter pairs of extractContent, in priority order
delimiters ==
    << [open |-> <<"(", "(">>, close |-> <<")", ")">>],
       [open |-> <<"[", "[">>, close |-> <<"]", "]">>],
       [open |-> <<"{", "{">>, close |-> <<"}", "}">>],
       [open |-> <<"[">>,      close |-> <<"]">>],
       [open |-> <<"(">>,      close |-> <<")">>],
       [open |-> <<"{">>,      close |-> <<"}">>] >>

(***************************************************************************)
(* NodeData                                                                *)
(***************************************************************************)

Has(node, f) == f \in DOMAIN node

\* node.f = v on an object that may not have the property yet
SetField(node, f, v) == [x \in (DOMAIN node) \cup {f} |-> IF x = f THEN v ELSE node[x]]

\* node.expanded ?? true
expandedOrTrue(node) == IF Has(node, "expanded") THEN node.expanded ELSE TRUE

\* node.children || []
childrenOf(node) == IF Has(node, "children") THEN node.children ELSE <<>>

RECURSIVE normalizeNodeData(_)
normalizeNodeData(node) ==
    LET kids == childrenOf(node)
        normalized == [id       |-> node.id,
                       topic    |-> node.topic,
                       expanded |-> expandedOrTrue(node),
                       children |-> [k \in 1..Len(kids) |-> normalizeNodeData(kids[k])]]
    IN  IF Has(node, "direction")
        THEN SetField(normalized, "direction", node.direction)
        ELSE normalized

normalizeMindElixirData(data) ==
    IF ~Has(data, "nodeData") THEN data
    ELSE [data EXCEPT !.nodeData = normalizeNodeData(data.nodeData)]

(***************************************************************************)
(* Serializer                                                              *)
(***************************************************************************)

\* node.topic.replace(/"/g, '#quot;')
escapeTopic(topic) == replaceAll(topic, Quote, QuotToken)

\* the direction prefix of a non-root line
directionPrefix(node, depth) ==
    IF depth = 2 /\ Has(node, "direction")
    THEN IF node.direction = 1 THEN TagRight
         ELSE IF node.direction = 0 THEN TagLeft ELSE <<>>
    ELSE <<>>

\* a line that names the root by its id: id(("topic"))
nodeLineWithId(node, depth, isRoot) ==
    LET indent == repeat(<<" ", " ">>, depth)
        escapedTopic == escapeTopic(node.topic)
    IN  IF isRoot
        THEN indent \o node.id \o <<"(", "(">> \o Quote \o escapedTopic \o Quote \o <<")", ")">>
        ELSE indent \o Quote \o directionPrefix(node, depth) \o escapedTopic \o Quote

\* the one line processNode pushes for the node itself
nodeLine(node, depth, isRoot) ==
    LET indent == repeat(<<" ", " ">>, depth)
        escapedTopic == escapeTopic(node.topic)
    IN  IF isRoot
        THEN indent \o RootWord \o <<"(", "(">> \o Quote \o escapedTopic \o Quote \o <<")", ")">>
        ELSE indent \o Quote \o directionPrefix(node, depth) \o escapedTopic \o Quote

\* processNode: the lines pushed for a node and its descendants, in order
RECURSIVE processNode(_, _, _)
RECURSIVE processChildren(_, _)
processNode(node, depth, isRoot) ==
    <<nodeLine(node, depth, isRoot)>> \o processChildren(childrenOf(node), depth + 1)

processChildren(kids, depth) ==
    IF kids = <<>> THEN <<>>
    ELSE processNode(Head(kids), depth, FALSE) \o processChildren(Tail(kids), depth)

dataToMermaid(data) ==
    LET lines == <<Header>> \o
                 (IF Has(data, "nodeData") THEN processNode(data.nodeData, 1, TRUE) ELSE <<>>)
    IN  join(lines)

(***************************************************************************)
(* Parser                                                                  *)
(***************************************************************************)

\* the [R]/[L] prefix check of extractContent: direction and remaining content
stripDirection(content) ==
    IF startsWith(content, TagRight)
    THEN [topic |-> substring(content, 4, Len(content)), direction |-> 1]
    ELSE IF startsWith(content, TagLeft)
         THEN [topic |-> substring(content, 4, Len(content)), direction |-> 0]
         ELSE [topic |-> content]

\* a chain that decodes &amp; first
unescapeAmpFirst(content) ==
    replaceAll(replaceAll(replaceAll(replaceAll(replaceAll(content,
        EntAmp, <<"&">>), QuotToken, Quote), EntQuot, Quote), EntLt, <<"<">>), EntGt, <<">">>)

\* the chain of five global replacements of extractContent
unescape(content) ==
    replaceAll(replaceAll(replaceAll(replaceAll(replaceAll(content,
        QuotToken, Quote), EntQuot, Quote), EntLt, <<"<">>), EntGt, <<">">>), EntAmp, <<"&">>)

\* the delimiter loop of extractContent: the text between the first opening
\* token and the closing token the text ends with, for the first pair of
\* the list that matches; the whole text when none does
RECURSIVE delimited(_, _)
delimited(trimmed, k) ==
    IF k > Len(delimiters) THEN trimmed
    ELSE LET open == delimiters[k].open
             close == delimiters[k].close
             openIdx == indexOf(trimmed, open)
         IN  IF openIdx # -1 /\ endsWith(trimmed, close)
             THEN substring(trimmed, openIdx + Len(open), Len(trimmed) - Len(close))
             ELSE delimited(trimmed, k + 1)

\* remove surrounding quotes if present (the delimited branch)
stripQuotes(content) ==
    IF Len(content) >= 2 /\ startsWith(content, Quote) /\ endsWith(content, Quote)
    THEN substring(content, 1, Len(content) - 1)
    ELSE content

\* extractContent up to the unescape step: the content between the quotes
\* or delimiters, without its [R]/[L] prefix, and the direction if any
taggedContent(text) ==
    LET trimmed == trim(text)
        content == IF startsWith(trimmed, Quote) /\ endsWith(trimmed, Quote)
                   THEN substring(trimmed, 1, Len(trimmed) - 1)
                   ELSE stripQuotes(delimited(trimmed, 1))
    IN  stripDirection(content)

\* extractContent: [topic, direction?] of one raw line
extractContent(text) == [taggedContent(text) EXCEPT !.topic = unescape(@)]

\* n.toString(36) of one base-36 digit
digit(n) ==
    CASE n = 0 -> "0" [] n = 1 -> "1" [] n = 2 -> "2" [] n = 3 -> "3" [] n = 4 -> "4"
      [] n = 5 -> "5" [] n = 6 -> "6" [] n = 7 -> "7" [] n = 8 -> "8" [] n = 9 -> "9"
      [] n = 10 -> "a" [] n = 11 -> "b" [] n = 12 -> "c" [] n = 13 -> "d"
      [] OTHER -> "z"

\* Math.random().toString(36).substr(2, 9) for the k-th node created by a
\* parse; the seed stands for the state of the random generator
randomId(seed, k) == <<"r", digit(seed), digit(k)>>

\* the node a path of child indices leads to
RECURSIVE NodeAt(_, _)
NodeAt(node, path) ==
    IF path = <<>> THEN node ELSE NodeAt(node.children[Head(path)], Tail(path))

\* parent.children = [node]: the new node replaces its earlier siblings
RECURSIVE pushChildAlone(_, _, _)
pushChildAlone(root, path, node) ==
    IF path = <<>> THEN [root EXCEPT !.children = <<node>>]
    ELSE [root EXCEPT !.children[Head(path)] = pushChildAlone(@, Tail(path), node)]

\* parent.children.push(node), parent being the node at the path
RECURSIVE pushChild(_, _, _)
pushChild(root, path, node) ==
    IF path = <<>> THEN [root EXCEPT !.children = Append(@, node)]
    ELSE [root EXCEPT !.children[Head(path)] = pushChild(@, Tail(path), node)]

\* a loop that pops only the entries indented strictly more than the line
RECURSIVE popStackStrict(_, _)
popStackStrict(stack, indent) ==
    IF Len(stack) > 0 /\ stack[Len(stack)].indent > indent
    THEN popStackStrict(SubSeq(stack, 1, Len(stack) - 1), indent)
    ELSE stack

\* while (stack.length > 0 && stack[stack.length - 1].indent >= indent) stack.pop()
RECURSIVE popStack(_, _)
popStack(stack, indent) ==
    IF Len(stack) > 0 /\ stack[Len(stack)].indent >= indent
    THEN popStack(SubSeq(stack, 1, Len(stack) - 1), indent)
    ELSE stack

\* a parser that does not put the root back on an empty stack
reseedNever(stack) == stack

\* if (stack.length === 0) stack.push({ node: rootNode, indent: -1 })
reseed(stack) ==
    IF Len(stack) = 0 THEN <<[node |-> <<>>, indent |-> -1]>> ELSE stack

\* the state of the parsing loop before its first iteration
parseStart(rootLine) ==
    [rootNode |-> [id |-> RootId, topic |-> extractContent(rootLine).topic,
                   expanded |-> TRUE, children |-> <<>>],
     stack    |-> <<[node |-> <<>>, indent |-> getIndent(rootLine)]>>,
     placed   |-> <<>>,
     indents  |-> <<getIndent(rootLine)>>,
     threw    |-> FALSE]

\* one iteration of the parsing loop; `placed' records the path of the node
\* made for each line and `indents' the indentation of each line read so far
\* (root line first).  Reading stack[stack.length - 1] of an empty stack
\* raises a TypeError.
parseLine(st, line, id) ==
    LET indent == getIndent(line)
        ex == extractContent(line)
        fresh == [id |-> id, topic |-> ex.topic, expanded |-> TRUE, children |-> <<>>]
        node == IF Has(ex, "direction") THEN SetField(fresh, "direction", ex.direction)
                ELSE fresh
        stack == reseed(popStack(st.stack, indent))
    IN  IF st.threw \/ Len(stack) = 0 THEN [st EXCEPT !.threw = TRUE]
        ELSE LET parent == stack[Len(stack)].node
                 path == parent \o <<Len(NodeAt(st.rootNode, parent).children) + 1>>
             IN  [rootNode |-> pushChild(st.rootNode, parent, node),
                  stack    |-> Append(stack, [node |-> path, indent |-> indent]),
                  placed   |-> Append(st.placed, path),
                  indents  |-> Append(st.indents, indent),
                  threw    |-> FALSE]

\* the parsing loop over lines[from..], k nodes having been created before
RECURSIVE parseLoop(_, _, _, _)
parseLoop(st, rest, seed, k) ==
    IF rest = <<>> THEN st
    ELSE parseLoop(parseLine(st, Head(rest), randomId(seed, k + 1)), Tail(rest), seed, k + 1)

\* the non-blank lines of the text
linesOf(mermaid) == filterNonBlank(split(mermaid))

\* a header test that compares without lower-casing
startIdxOfExact(lines) ==
    IF Len(lines) > 0 /\ trim(lines[1]) = Header THEN 1 ELSE 0

\* 1 when the first line is the header, else 0
startIdxOf(lines) ==
    IF Len(lines) > 0 /\ toLowerCase(trim(lines[1])) = Header THEN 1 ELSE 0

\* the final state of the parsing loop (defined when a root line exists)
parseRun(lines, startIdx, seed) ==
    parseLoop(parseStart(lines[startIdx + 1]),
              SubSeq(lines, startIdx + 2, Len(lines)), seed, 0)

placeholderData ==
    [nodeData |-> [id |-> RootId, topic |-> PlaceholderTopic, expanded |-> TRUE,
                   children |-> <<>>]]

mermaidToData(mermaid, seed) ==
    LET lines == linesOf(mermaid)
        startIdx == startIdxOf(lines)
    IN  IF startIdx >= Len(lines) THEN placeholderData
        ELSE LET st == parseRun(lines, startIdx, seed)
             IN  IF st.threw THEN [error |-> "TypeError"]
                 ELSE [nodeData |-> normalizeNodeData(st.rootNode)]

(***************************************************************************)
(* Reconciler: the body of setMermaid                                      *)
(***************************************************************************)

\* a table that keeps the first value written under a key
putIfAbsent(states, key, value) ==
    IF key \in DOMAIN states THEN states ELSE SetField(states, key, value)

\* expandedStates[key] = value
put(states, key, value) == SetField(states, key, value)

\* saveExpandedStates: the table after walking the node and its descendants
RECURSIVE saveExpandedStates(_, _)
RECURSIVE saveChildren(_, _)
saveExpandedStates(node, states) ==
    LET byId == IF node.id # <<>> /\ Has(node, "expanded")
                THEN put(states, node.id, node.expanded)
                ELSE states
        byTopic == IF node.topic # <<>>
                   THEN put(byId, TopicKeyPrefix \o node.topic, expandedOrTrue(node))
                   ELSE byId
    IN  saveChildren(childrenOf(node), byTopic)

saveChildren(kids, states) ==
    IF kids = <<>> THEN states
    ELSE saveChildren(Tail(kids), saveExpandedStates(Head(kids), states))

\* restoreExpandedStates: the node and its descendants with expanded restored
RECURSIVE restoreExpandedStates(_, _)
restoreExpandedStates(node, states) ==
    LET kids == childrenOf(node)
        restored ==
            IF node.id # <<>> /\ node.id \in DOMAIN states
            THEN SetField(node, "expanded", states[node.id])
            ELSE IF node.topic # <<>> /\ (TopicKeyPrefix \o node.topic) \in DOMAIN states
                 THEN SetField(node, "expanded", states[TopicKeyPrefix \o node.topic])
                 ELSE node
    IN  IF Has(node, "children")
        THEN [restored EXCEPT !.children =
                 [k \in 1..Len(kids) |-> restoreExpandedStates(kids[k], states)]]
        ELSE restored

\* the table setMermaid builds from the tree the widget holds
expandedStatesOf(currentData) ==
    IF Has(currentData, "nodeData") THEN saveExpandedStates(currentData.nodeData, <<>>)
    ELSE <<>>

\* a setMermaid that refreshes the widget with the data it saved the flags of
reconcileStale(currentData, newData) ==
    IF Has(currentData, "nodeData") THEN currentData
    ELSE normalizeMindElixirData(newData)

\* the data setMermaid hands to mindRef.current.refresh
reconcile(currentData, newData) ==
    LET expandedStates == expandedStatesOf(currentData)
        restored == IF Has(newData, "nodeData")
                    THEN [newData EXCEPT !.nodeData =
                             restoreExpandedStates(newData.nodeData, expandedStates)]
                    ELSE newData
    IN  normalizeMindElixirData(restored)

(***************************************************************************)
(* Bounds and input sets                                                   *)
(***************************************************************************)

\* the largest number of nodes of a tree given as initialData
MaxNodes == 3

\* the largest number of lines (root line included) of an indentation outline
MaxLines == 4

\* the largest indentation width of a line of an indentation outline
MaxIndent == 1

\* the largest number of setMermaid calls in one behaviour
MaxCycles == 2

\* topics without any character the format reserves
PlainTopics == << <<>>, <<"a">>, <<"b">>, <<"c">> >>

\* topics made of the characters and tokens the format reserves
ReservedTopics ==
    << Quote, <<"a", "\"", "b">>, <<"\"", "\"">>,
       QuotToken, EntQuot, EntLt, EntGt, EntAmp,
       <<"&", "a", "m", "p", ";", "q", "u", "o", "t", ";">>,
       <<"#", "&", ";">>,
       TagRight \o <<"a">>, TagLeft \o <<"a">>, TagRight,
       <<"(", "(", "a", ")", ")">>, RootWord \o <<"(", "(", "a", ")", ")">>,
       <<"[", "a", "]">>, <<"{", "a", "}">>, <<"(", "a">>, <<")", ")">>,
       <<" ", "a", " ">>, <<"\t", "a">>, <<"a", "\n", "b">> >>

TopicPool == PlainTopics \o ReservedTopics

\* the topic a generated node has unless it is the varied one
DefaultTopic(k) == PlainTopics[(k % 3) + 2]

\* the sequence of the elements of a set of integers, ascending
RECURSIVE SortedSeq(_)
SortedSeq(S) ==
    IF S = {} THEN <<>>
    ELSE LET m == CHOOSE x \in S : \A y \in S : x <= y
         IN  <<m>> \o SortedSeq(S \ {m})

\* pre-order depth sequences of the trees of n nodes (root has depth 0)
DepthSeqs(n) ==
    {d \in [1..n -> 0..(n - 1)] :
        d[1] = 0 /\ \A k \in 2..n : d[k] >= 1 /\ d[k] <= d[k - 1] + 1}

\* the last pre-order index of the subtree of node k
SubtreeEnd(d, k) ==
    LET later == {j \in (k + 1)..Len(d) : d[j] <= d[k]}
    IN  IF later = {} THEN Len(d) ELSE (CHOOSE j \in later : \A i \in later : j <= i) - 1

\* the tree whose pre-order depth sequence is d and whose k-th node has the
\* properties attrs[k]
RECURSIVE Build(_, _, _)
Build(d, attrs, k) ==
    LET kids == SortedSeq({j \in (k + 1)..SubtreeEnd(d, k) : d[j] = d[k] + 1})
    IN  SetField(attrs[k], "children", [i \in 1..Len(kids) |-> Build(d, attrs, kids[i])])

\* the identifier of the k-th node of a tree the widget holds: the root's
\* fixed identifier, else one an earlier parse minted
WidgetId(k) == IF k = 1 THEN RootId ELSE randomId(0, k - 1)

\* a node as the widget holds it: children of the root carry a side
DefaultAttrs(d, k) ==
    LET base == [id |-> WidgetId(k), topic |-> DefaultTopic(k), expanded |-> TRUE]
    IN  IF d[k] = 1 THEN SetField(base, "direction", k % 2) ELSE base

\* the values of the optional properties; "undefined" stands for absence
ExpandedChoices == {"true", "false", "undefined"}

DirectionChoices == {"left", "right", "undefined"}

VariedAttrs(k, topic, dir, exp) ==
    LET base == [id |-> WidgetId(k), topic |-> topic]
        withExp == IF exp = "undefined" THEN base
                   ELSE SetField(base, "expanded", exp = "true")
    IN  IF dir = "undefined" THEN withExp
        ELSE SetField(withExp, "direction", IF dir = "right" THEN 1 ELSE 0)

\* the tree of shape d whose node v.pos takes topic v.t, side v.dir and
\* expansion v.exp
TreeOf(d, v) ==
    [nodeData |-> Build(d, [k \in 1..Len(d) |->
                                IF k = v.pos
                                THEN VariedAttrs(k, TopicPool[v.t], v.dir, v.exp)
                                ELSE DefaultAttrs(d, k)], 1)]

\* the side DefaultAttrs gives the k-th node
DefaultDir(d, k) ==
    IF d[k] # 1 THEN "undefined" ELSE IF k % 2 = 1 THEN "right" ELSE "left"

\* the tree is a chain: every node but the last has one child
IsChain(d) == \A k \in 1..Len(d) : d[k] = k - 1

\* one node is varied.  It takes a side only when it is a child of the root.
\* With a reserved topic it is expanded and the tree is a chain, which has a
\* node at every depth.  With a plain topic it varies either its topic and
\* expansion flag (the value as well as its absence) or its side.
Variations(d) ==
    {v \in [pos : 1..Len(d), t : 1..Len(TopicPool),
            dir : DirectionChoices, exp : ExpandedChoices] :
        /\ (v.dir = "undefined" \/ d[v.pos] = 1)
        /\ IF v.t > Len(PlainTopics)
           THEN v.exp = "true" /\ IsChain(d)
           ELSE \/ v.dir = DefaultDir(d, v.pos)
                \/ TopicPool[v.t] = DefaultTopic(v.pos) /\ v.exp = "true"}

TreeInputs ==
    UNION { UNION { {TreeOf(d, v) : v \in Variations(d)} : d \in DepthSeqs(n) } :
            n \in 1..MaxNodes }

\* data without a root node
RootlessData == [linkData |-> <<>>]

\* the tree the widget holds when an outline arrives from outside
BaseData ==
    [nodeData |->
        [id |-> RootId, topic |-> <<"a">>, expanded |-> TRUE, children |->
            << [id |-> randomId(0, 1), topic |-> <<"b">>, direction |-> 0,
                expanded |-> FALSE, children |->
                   << [id |-> randomId(0, 2), topic |-> <<"c">>, expanded |-> TRUE,
                       children |-> <<>>] >>],
               [id |-> randomId(0, 3), topic |-> <<"c">>, direction |-> 1,
                expanded |-> FALSE, children |-> <<>>] >>]]

\* raw outline lines (without indentation): quoted, delimited, bare, malformed
RawLines ==
    { <<"a">>, <<"b">>, <<"c">>, <<"a", " ", "b">>, <<"a", "\t", " ">>,
      <<"\"", "a", "\"">>, <<"\"", "b", "\"">>, Quote, <<"\"", "\"">>,
      <<"\"", "a">>, <<"a", "\"">>,
      <<"r", "o", "o", "t", "(", "(", "a", ")", ")">>,
      <<"r", "o", "o", "t", "(", "(", "\"", "a", "\"", ")", ")">>,
      <<"r", "o", "o", "t", "(", "(", "\"", ")", ")">>,
      <<"(", "(", "a">>, <<"a", ")", ")">>, <<")", "(">>, <<"]">>,
      <<"[", "a", "]">>, <<"[", "[", "a", "]", "]">>, <<"{", "{", "a", "}", "}">>,
      <<"{", "a", "}">>, <<"(", "a", ")">>, <<"x", "[", "a", "]">>,
      <<"(", "[", "a", "]", ")">>,
      TagRight \o <<"a">>, <<"\"">> \o TagRight \o <<"a", "\"">>,
      <<"\"">> \o TagLeft \o <<"c", "\"">>,
      <<"(", "(", "\"">> \o TagRight \o <<"a", "\"", ")", ")">>,
      <<"\"">> \o QuotToken \o <<"\"">>, EntAmp \o <<"q", "u", "o", "t", ";">>,
      <<"&">> \o QuotToken \o <<"q", "u", "o", "t", ";">>,
      <<"&", "a", "m">> \o EntAmp \o <<"p", ";", "&", "l">> \o EntLt \o <<"t", ";">>,
      <<"M", "i", "n", "d", "m", "a", "p">> }

\* n spaces
Spaces(n) == [k \in 1..n |-> " "]

\* outlines without any root line
EmptyDocs ==
    { <<>>, <<" ">>, <<"\n">>, <<" ", "\n", "\t", "\n">>, Header,
      <<"M", "i", "n", "d", "M", "a", "p">>,
      <<" ">> \o <<"M", "I", "N", "D", "M", "A", "P">> \o <<" ", "\n", " ">>,
      <<"\n">> \o Header \o <<"\n", "\n">> }

\* outlines of plain lines whose indentation widths are arbitrary
IndentDocs ==
    UNION { { join([k \in 1..n |-> Spaces(w[k]) \o DefaultTopic(k)]) :
              w \in [1..n -> 0..MaxIndent] } : n \in 1..MaxLines }

\* outlines of one raw line, with and without header, and outlines of a
\* well-formed root line, a blank line and one raw line
ContentDocs ==
    { Spaces(2) \o l : l \in RawLines } \cup
    { Header \o <<"\n">> \o Spaces(2) \o l : l \in RawLines } \cup
    { Header \o <<"\n">> \o Spaces(2) \o RootWord \o <<"(", "(", "a", ")", ")", "\n">>
        \o Spaces(1) \o <<"\n">> \o Spaces(4) \o l : l \in RawLines }

ForeignDocs == EmptyDocs \cup IndentDocs \cup ContentDocs

(***************************************************************************)
(* The MindMap component as a state machine                                *)
(***************************************************************************)

VARIABLES
    mounted,      \* mindRef.current is set
    initialData,  \* the initialData prop
    live,         \* the data the widget holds (mindRef.current.getData())
    pending,      \* the outlines an importer or the store is about to hand over
    rng,          \* the state of the random generator
    exported,     \* the text getMermaid returned, when the last call was one
    source,       \* the data that call serialized
    prev,         \* the data the widget held when setMermaid was last called
    input,        \* the text the last setMermaid call was given
    imported,     \* the last outline that came from a file or from the store
    parsed,       \* what mermaidToData returned in the last setMermaid call
    seedUsed,     \* the state of the random generator in that call
    raised,       \* an exception escaped from the last call
    op,           \* the last operation
    cycles        \* the number of setMermaid calls so far

\* the state of the page that hosts the component (src/app/page.tsx)
VARIABLES
    activeMindmap,     \* the activeMindmap state (activeMindmapRef follows it)
    firstActive,       \* the activeMindmap that handleKeyDown captured when it was registered
    mindmapKeys,       \* the mindmapKeys state (mindmapKeysRef follows it)
    cloudConnected,    \* waitForSync of the running session resolved (cloudConnectedRef)
    initialMermaid,    \* the initialMermaid state
    syncingFromCloud,  \* the syncingFromCloud ref
    clearTimers,       \* the pending setTimeout callbacks that clear syncingFromCloud
    skipCloudLoad,     \* skipCloudLoadRef
    lastSentMermaid,   \* lastSentMermaid of the running session
    store,             \* the values the MindCache store holds under the mindmap keys
    llm,               \* the keys that carry the LLMRead and LLMWrite tags
    refreshPending,    \* the refresh timer of the running session is armed
    oldRefresh,        \* the armed refresh timers of sessions that were cleaned up, each
                       \* with the keys its client lists (the latest one is kept)
    undoStack,         \* the values undoAll of the running session's client restores
    redoStack,         \* the values redoAll of that client restores
    applied,           \* the text the page passed to setMermaid in the last step
    events             \* the number of user and remote events so far

codecVars == <<initialData, pending, rng, exported, source, prev, input, imported,
               parsed, seedUsed, raised, cycles>>

pageVars == <<activeMindmap, firstActive, mindmapKeys, cloudConnected, initialMermaid,
              syncingFromCloud, clearTimers, skipCloudLoad, lastSentMermaid, store, llm,
              refreshPending, oldRefresh, undoStack, redoStack, applied, events>>

vars == <<mounted, initialData, live, pending, rng, exported, source, prev, input,
          imported, parsed, seedUsed, raised, op, cycles, pageVars>>

\* null or undefined: no value
Null == <<"null">>

\* the page does not take part: the component is driven on its own
PageIdle ==
    /\ activeMindmap = Null
    /\ firstActive = Null
    /\ mindmapKeys = <<>>
    /\ cloudConnected = FALSE
    /\ initialMermaid = Null
    /\ syncingFromCloud = FALSE
    /\ clearTimers = 0
    /\ skipCloudLoad = FALSE
    /\ lastSentMermaid = Null
    /\ store = <<>>
    /\ llm = {}
    /\ refreshPending = FALSE
    /\ oldRefresh = <<>>
    /\ undoStack = <<>>
    /\ redoStack = <<>>
    /\ applied = Null
    /\ events = 0

\* the value of a variable that holds no data yet
NoData == [none |-> TRUE]

\* the states of the random generator: in state 0 it repeats the identifiers
\* the widget's first tree carries, in state 1 it mints others
Seeds == {0, 1}

\* the generator never repeats the identifiers of the parse just before
nextSeed(seed) == IF seed = 0 THEN 1 ELSE 0

\* after construction: either the widget exists and holds the normalized
\* initial data, or it does not exist yet
Init ==
    /\ \/ /\ mounted = TRUE
          /\ \/ initialData \in TreeInputs /\ pending = <<>>
             \/ initialData = BaseData /\ pending \in {<<doc>> : doc \in ForeignDocs}
          /\ live = normalizeMindElixirData(initialData)
       \/ /\ mounted = FALSE
          /\ initialData \in {RootlessData, BaseData}
          /\ pending = <<>>
          /\ live = NoData
    /\ rng \in Seeds
    /\ exported = <<>>
    /\ source = NoData
    /\ prev = NoData
    /\ input = <<>>
    /\ imported = <<>>
    /\ parsed = NoData
    /\ seedUsed = 0
    /\ raised = FALSE
    /\ op = "init"
    /\ cycles = 0
    /\ PageIdle

\* the effect that creates the widget: mind.init(normalizeMindElixirData(data));
\* the widget cannot be created from data without a root
Mount ==
    /\ ~mounted
    /\ Has(initialData, "nodeData")
    /\ mounted' = TRUE
    /\ live' = normalizeMindElixirData(initialData)
    /\ op' = "mount"
    /\ UNCHANGED <<initialData, pending, rng, exported, source, prev, input, imported,
                   parsed, seedUsed, raised, cycles>>
    /\ UNCHANGED pageVars

\* the data getMermaid serializes: the widget's, or the initialData prop
\* while there is no widget
currentData == IF mounted THEN live ELSE initialData

\* getMermaid
GetMermaid ==
    /\ exported' = dataToMermaid(currentData)
    /\ source' = currentData
    /\ raised' = FALSE
    /\ op' = "getMermaid"
    /\ UNCHANGED <<mounted, initialData, live, pending, rng, prev, input, imported,
                   parsed, seedUsed, cycles>>
    /\ UNCHANGED pageVars

\* setMermaid(mermaid): returns at once while there is no widget; otherwise
\* parses, reconciles the expansion flags and refreshes the widget
SetMermaid(mermaid, name) ==
    /\ mounted
    /\ cycles < MaxCycles
    /\ LET newData == mermaidToData(mermaid, rng)
       IN  /\ parsed' = newData
           /\ raised' = Has(newData, "error")
           /\ live' = IF Has(newData, "error") THEN live ELSE reconcile(live, newData)
    /\ prev' = live
    /\ input' = mermaid
    /\ seedUsed' = rng
    /\ rng' = nextSeed(rng)
    /\ op' = name
    /\ cycles' = cycles + 1
    /\ UNCHANGED <<mounted, initialData>>
    /\ UNCHANGED pageVars

\* const output = getMermaid(); setMermaid(output): the widget's tree is
\* exported and the text imported again
SetMermaidExported ==
    LET output == dataToMermaid(live)
    IN  /\ SetMermaid(output, "reimport")
        /\ exported' = output
        /\ source' = live
        /\ UNCHANGED <<pending, imported>>

\* setMermaid(content): an outline from a file or from the store is imported
SetMermaidPending ==
    /\ pending # <<>>
    /\ SetMermaid(Head(pending), "import")
    /\ pending' = Tail(pending)
    /\ imported' = Head(pending)
    /\ exported' = <<>>
    /\ source' = NoData

Next ==
    \/ Mount
    \/ GetMermaid
    \/ SetMermaidExported
    \/ SetMermaidPending

Spec == Init /\ [][Next]_vars

(***************************************************************************)
(* Vocabulary of the properties                                            *)
(***************************************************************************)

\* the topics of a tree in depth-first pre-order
RECURSIVE TopicsPreOrder(_)
RECURSIVE TopicsOfAll(_)
TopicsPreOrder(node) == <<node.topic>> \o TopicsOfAll(childrenOf(node))

TopicsOfAll(kids) ==
    IF kids = <<>> THEN <<>> ELSE TopicsPreOrder(Head(kids)) \o TopicsOfAll(Tail(kids))

\* the shape of a tree: parent-child relation and child order, nothing else
RECURSIVE ShapeOf(_)
ShapeOf(node) == [k \in 1..Len(childrenOf(node)) |-> ShapeOf(childrenOf(node)[k])]

\* the paths of all nodes of a tree
RECURSIVE PathsOf(_)
PathsOf(node) ==
    {<<>>} \cup UNION { {<<k>> \o p : p \in PathsOf(childrenOf(node)[k])} :
                        k \in 1..Len(childrenOf(node)) }

\* the nodes of a tree in depth-first pre-order
RECURSIVE NodesPreOrder(_)
RECURSIVE NodesOfAll(_)
NodesPreOrder(node) == <<node>> \o NodesOfAll(childrenOf(node))

NodesOfAll(kids) ==
    IF kids = <<>> THEN <<>> ELSE NodesPreOrder(Head(kids)) \o NodesOfAll(Tail(kids))

IdsOf(node) ==
    LET nodes == NodesPreOrder(node)
    IN  {nodes[k].id : k \in 1..Len(nodes)}

\* the paths of the nodes of a tree that carry the identifier
RECURSIVE PathsWithId(_, _)
PathsWithId(node, id) ==
    (IF node.id = id THEN {<<>>} ELSE {}) \cup
    UNION { {<<k>> \o p : p \in PathsWithId(childrenOf(node)[k], id)} :
            k \in 1..Len(childrenOf(node)) }

\* the last operation was a setMermaid call
AfterSetMermaid == op \in {"import", "reimport"}

\* the last operation imported the text that getMermaid made of `source'
AfterRoundTrip ==
    op = "reimport" /\ Has(source, "nodeData") /\ Has(parsed, "nodeData")

\* every topic of the tree is free of the five escape tokens
FreeOfTokens(node) ==
    LET topics == TopicsPreOrder(node)
    IN  \A k \in 1..Len(topics) :
            \A tok \in {QuotToken, EntQuot, EntLt, EntGt, EntAmp} :
                ~includes(topics[k], tok)

(***************************************************************************)
(* Properties                                                              *)
(***************************************************************************)

\* C1: round-trip identity of content: the pre-order topic sequence of
\* mermaidToData(dataToMermaid(T)) equals that of T, for arbitrary topics.
C1_RoundTripTopics ==
    AfterRoundTrip => TopicsPreOrder(parsed.nodeData) = TopicsPreOrder(source.nodeData)

\* C2: idempotent re-serialization: when no topic of T contains #quot; &quot;
\* &lt; &gt; or &amp;, serializing the re-parsed tree reproduces the text.
C2_Idempotent ==
    (AfterRoundTrip /\ FreeOfTokens(source.nodeData)) => dataToMermaid(parsed) = input

\* C3: a serialize->parse round trip preserves the shape of the tree: node
\* count, parent-child relation and child order.
C3_ShapePreserved ==
    AfterRoundTrip => ShapeOf(parsed.nodeData) = ShapeOf(source.nodeData)

\* the tag the serializer writes for a side
TagOf(direction) == IF direction = 1 THEN TagRight ELSE TagLeft

\* the k-th child of the root of T has a side, its line carries the tag
\* inside the quotes, and the k-th child of the re-parsed root has the same
\* side and the original topic
DirectionKept(k) ==
    LET child == source.nodeData.children[k]
        kids == parsed.nodeData.children
    IN  (Has(child, "direction") /\ child.direction \in {0, 1}) =>
            /\ includes(input, <<"\n">> \o Spaces(4) \o Quote \o TagOf(child.direction))
            /\ k <= Len(kids)
            /\ Has(kids[k], "direction")
            /\ kids[k].direction = child.direction
            /\ kids[k].topic = child.topic

\* C4: direction fidelity: a child of the root with direction Right (Left) is
\* written with the prefix '[R] ' ('[L] ') inside its quotes and re-parses
\* to a node with that direction and the original topic.
C4_DirectionFidelity ==
    AfterRoundTrip => \A k \in 1..Len(source.nodeData.children) : DirectionKept(k)

\* the bare root line 'root((X))' under a header
BareRootDoc(X) ==
    Header \o <<"\n">> \o Spaces(2) \o RootWord \o <<"(", "(">> \o X \o <<")", ")">>

\* C5: no self-referential growth: importing the serializer's output leaves
\* the root topic equal to X on every cycle, and the bare root line
\* 'root((X))' parses to root topic X.
C5_RootTopicStable ==
    /\ AfterRoundTrip => parsed.nodeData.topic = source.nodeData.topic
    /\ \A X \in {<<"a">>, Quote} :
          (op = "import" /\ input = BareRootDoc(X)) => parsed.nodeData.topic = X

\* the previous tree has a node with topic t whose expanded is false
CollapsedInPrev(t) ==
    LET nodes == NodesPreOrder(prev.nodeData)
    IN  \E k \in 1..Len(nodes) :
            nodes[k].topic = t /\ Has(nodes[k], "expanded") /\ nodes[k].expanded = FALSE

\* the node at path p of the parsed tree is new to the previous tree
FreshAt(p) == NodeAt(parsed.nodeData, p).id \notin IdsOf(prev.nodeData)

\* setMermaid parsed a tree and handed the reconciled tree to the widget
Reconciled == AfterSetMermaid /\ Has(parsed, "nodeData") /\ Has(prev, "nodeData")

\* C6: expansion reconciliation by topic: a new node whose topic t is that of
\* some collapsed node of the previous tree is handed to the widget collapsed.
C6_AnyCollapsedTopic ==
    Reconciled =>
        \A p \in PathsOf(parsed.nodeData) :
            (FreshAt(p) /\ CollapsedInPrev(NodeAt(parsed.nodeData, p).topic))
                => NodeAt(live.nodeData, p).expanded = FALSE

\* the lines of a text the parser makes nodes of, root line first
OutlineLines(text) ==
    LET lines == linesOf(text)
    IN  SubSeq(lines, startIdxOf(lines) + 1, Len(lines))

\* the lines of the last input the parser made nodes of, root line first
InputLines == OutlineLines(input)

\* the numbers of leading whitespace characters of these lines
Indents ==
    LET lines == InputLines
    IN  [j \in 1..Len(lines) |-> getIndent(lines[j])]

\* the number of leading whitespace characters of the j-th such line
IndentOf(j) == Indents[j]

\* the identifier of the node made for the j-th line
LineId(j) == IF j = 1 THEN RootId ELSE randomId(seedUsed, j - 1)

\* the paths at which the returned tree holds the node of the j-th line
PathsOfLine(j) == PathsWithId(parsed.nodeData, LineId(j))

\* the nearest preceding line whose indentation is strictly smaller than
\* that of line j, the indentations being ind; the root line when there is
\* none
ExpectedParentIn(ind, j) ==
    LET smaller == {i \in 1..(j - 1) : ind[i] < ind[j]}
    IN  IF smaller = {} THEN 1 ELSE CHOOSE i \in smaller : \A h \in smaller : h <= i

ExpectedParent(j) == ExpectedParentIn(Indents, j)

\* the node of line j is a child of the node of its expected parent line,
\* placed after the nodes of all earlier lines that have the same parent
PlacedIn(ind, j) ==
    LET mine == PathsOfLine(j)
        parent == ExpectedParentIn(ind, j)
    IN  /\ Cardinality(mine) = 1
        /\ \A p \in mine :
              /\ p # <<>>
              /\ SubSeq(p, 1, Len(p) - 1) \in PathsOfLine(parent)
              /\ p[Len(p)] = 1 + Cardinality({i \in 2..(j - 1) :
                                                 ExpectedParentIn(ind, i) = parent})

PlacedByIndentation(j) == PlacedIn(Indents, j)

\* setMermaid parsed an outline that has a root line
ParsedLines == AfterSetMermaid /\ Has(parsed, "nodeData") /\ InputLines # <<>>

\* C7: parent selection by indentation: the node of each line after the root
\* line is the last child of the node of the nearest preceding line whose
\* indentation is strictly smaller, of the root when there is none.
C7_ParentByIndentation ==
    ParsedLines =>
        LET ind == Indents
        IN  \A j \in 2..Len(ind) : PlacedIn(ind, j)

\* a four-line outline was parsed in which a line went to the root because
\* no earlier line is indented less, and a line went under a line that is
\* neither the root line nor the line just before it
C7_Witness ==
    /\ ParsedLines
    /\ Len(InputLines) = 4
    /\ \E j \in 2..4 : IndentOf(j) <= IndentOf(1) /\ PlacedByIndentation(j)
    /\ \E j \in 2..4 : ExpectedParent(j) \notin {1, j - 1} /\ PlacedByIndentation(j)

\* a well-formed NodeData tree
RECURSIVE IsNodeData(_)
IsNodeData(node) ==
    /\ {"id", "topic", "expanded", "children"} \subseteq DOMAIN node
    /\ node.expanded \in BOOLEAN
    /\ DOMAIN node.children = 1..Len(node.children)
    /\ \A k \in 1..Len(node.children) : IsNodeData(node.children[k])

\* C8: the parser is total: whatever the input, mermaidToData returns, raises
\* nothing, and its result is a tree with exactly one root node.
C8_ParserTotal ==
    AfterSetMermaid =>
        /\ ~raised
        /\ DOMAIN parsed = {"nodeData"}
        /\ IsNodeData(parsed.nodeData)
        /\ PathsWithId(parsed.nodeData, RootId) = {<<>>}

\* an outline whose second line is indented no more than its root line and
\* whose third line is indented less than the second was parsed to a tree
C8_Witness ==
    /\ op = "import"
    /\ ~raised
    /\ Len(InputLines) >= 3
    /\ IndentOf(2) <= IndentOf(1)
    /\ IndentOf(3) < IndentOf(2)
    /\ Len(NodesPreOrder(parsed.nodeData)) = Len(InputLines)

\* the input has no non-blank line, or only the header line in any case
EmptyDocument == input \in EmptyDocs

\* C9: empty document placeholder: without any line after the optional
\* header, mermaidToData returns the single node with id 'root', topic
\* 'Root', expanded = true and no children.
C9_Placeholder ==
    (AfterSetMermaid /\ EmptyDocument) =>
        parsed = [nodeData |-> [id |-> <<"r", "o", "o", "t">>,
                                topic |-> <<"R", "o", "o", "t">>,
                                expanded |-> TRUE,
                                children |-> <<>>]]

\* an outline that is only a header in mixed case was parsed to the placeholder
C9_Witness ==
    /\ op = "import"
    /\ input = <<"M", "i", "n", "d", "M", "a", "p">>
    /\ parsed.nodeData.topic = <<"R", "o", "o", "t">>
    /\ parsed.nodeData.children = <<>>

\* C10: serializing data without a root node is signalled to the caller (an
\* error or an empty result), never answered with partial output such as
\* the header line alone.
C10_RootlessSignalled ==
    (op = "getMermaid" /\ ~Has(source, "nodeData")) => (raised \/ exported = <<>>)

\* the set of the topics of a tree
TopicSet(node) ==
    LET topics == TopicsPreOrder(node)
    IN  {topics[k] : k \in 1..Len(topics)}

\* the line is bare text: it does not open with a double quote
BareLine(line) == ~startsWith(trim(line), Quote)

\* C11: bare legacy lines keep their text: when the lines after the root of
\* an imported outline are bare text, the tree the widget holds has, for
\* every such line, a node whose topic is the line's trimmed text, after the
\* import and still after exporting the tree and importing the export.
C11_BareLinesKept ==
    LET lines == OutlineLines(imported)
    IN  (/\ AfterSetMermaid
         /\ imported # <<>>
         /\ Has(live, "nodeData")
         /\ \A j \in 2..Len(lines) : BareLine(lines[j]))
            => \A j \in 2..Len(lines) : trim(lines[j]) \in TopicSet(live.nodeData)

\* the topic extractContent gives the j-th line of the last input
TopicOfLine(j) == extractContent(InputLines[j]).topic

\* C12 as stated: whatever the text, the parsed tree has exactly one node per
\* non-blank line after the optional header, every line's topic is in the
\* tree, and every line's topic occurs in the text getMermaid returns next.
C12_NoLineLost ==
    /\ (AfterSetMermaid /\ Has(parsed, "nodeData")) =>
          /\ Len(NodesPreOrder(parsed.nodeData)) = Len(InputLines)
          /\ \A j \in 1..Len(InputLines) : TopicOfLine(j) \in TopicSet(parsed.nodeData)
    /\ (op = "getMermaid" /\ mounted /\ Has(parsed, "nodeData")) =>
          \A j \in 1..Len(InputLines) : includes(exported, TopicOfLine(j))

\* C12 amended: when the text has a non-blank line after the optional header,
\* the parsed tree has exactly one node per such line, the node of each line
\* has the line's topic, and the text getMermaid returns next contains every
\* line's topic with its double quotes written as #quot;.
C12_NoLineLostEscaped ==
    LET lines == InputLines
    IN  /\ (AfterSetMermaid /\ Has(parsed, "nodeData") /\ lines # <<>>) =>
              /\ Len(NodesPreOrder(parsed.nodeData)) = Len(lines)
              /\ \A j \in 1..Len(lines) :
                     \E p \in PathsOfLine(j) :
                         NodeAt(parsed.nodeData, p).topic = extractContent(lines[j]).topic
        /\ (op = "getMermaid" /\ mounted /\ Has(parsed, "nodeData") /\ lines # <<>>) =>
              \A j \in 1..Len(lines) :
                  includes(exported, escapeTopic(extractContent(lines[j]).topic))

\* an outline with a header and a blank line was parsed to one node per
\* remaining line, and the export that followed holds a topic with a double
\* quote in its escaped form only
C12_Witness ==
    /\ op = "getMermaid"
    /\ mounted
    /\ Has(parsed, "nodeData")
    /\ Len(split(input)) = 4
    /\ Len(InputLines) = 2
    /\ Len(NodesPreOrder(parsed.nodeData)) = 2
    /\ includes(TopicOfLine(2), Quote)
    /\ ~includes(exported, TopicOfLine(2))
    /\ includes(exported, escapeTopic(TopicOfLine(2)))

\* the distances from the root of the nodes of a tree, in pre-order, the
\* node itself being at distance d
RECURSIVE DepthsPreOrder(_, _)
RECURSIVE DepthsOfAll(_, _)
DepthsPreOrder(node, d) == <<d>> \o DepthsOfAll(childrenOf(node), d + 1)

DepthsOfAll(kids, d) ==
    IF kids = <<>> THEN <<>>
    ELSE DepthsPreOrder(Head(kids), d) \o DepthsOfAll(Tail(kids), d)

\* getMermaid returned the text of a tree
Serialized == op \in {"getMermaid", "reimport"} /\ Has(source, "nodeData")

\* C13: one line per node: the text of a tree of n nodes is the header line
\* followed by exactly n lines, the line of the k-th node in pre-order, at
\* distance d from the root, being indented by exactly 2 * (d + 1) spaces.
C13_OneLinePerNode ==
    Serialized =>
        LET lines == split(exported)
            depths == DepthsPreOrder(source.nodeData, 0)
        IN  /\ Len(lines) = 1 + Len(depths)
            /\ lines[1] = Header
            /\ \A k \in 1..Len(depths) :
                   /\ getIndent(lines[k + 1]) = 2 * (depths[k] + 1)
                   /\ startsWith(lines[k + 1], Spaces(2 * (depths[k] + 1)))

\* the node at path p of the tree has a direction exactly when p has length 1
DirectionOnlyAtDepthOne(node) ==
    \A p \in PathsOf(node) : Has(NodeAt(node, p), "direction") <=> Len(p) = 1

\* C14: direction is defined exactly at depth 1: in every tree mermaidToData
\* returns, a node has a direction if and only if it is a child of the root.
C14_DirectionAtDepthOne ==
    (AfterSetMermaid /\ Has(parsed, "nodeData")) => DirectionOnlyAtDepthOne(parsed.nodeData)

\* the header line in lower, mixed and upper case
HeaderForms ==
    { Header, <<"M", "i", "n", "d", "M", "a", "p">>,
      <<"M", "I", "N", "D", "M", "A", "P">> }

\* topic, direction and children of a node and of its descendants: the tree
\* without its ids and expansion flags
RECURSIVE ContentOf(_)
ContentOf(node) ==
    LET kids == childrenOf(node)
        base == [topic |-> node.topic,
                 children |-> [k \in 1..Len(kids) |-> ContentOf(kids[k])]]
    IN  IF Has(node, "direction") THEN SetField(base, "direction", node.direction)
        ELSE base

\* the tree mermaidToData returns for the last input behind a header line h
\* has the topics, directions and shape of the tree it returned for the input
SameBehindHeader(h) ==
    LET behind == mermaidToData(h \o <<"\n">> \o input, seedUsed)
    IN  Has(behind, "nodeData") /\ ContentOf(behind.nodeData) = ContentOf(parsed.nodeData)

\* C15 as stated: whatever the text, a header line in any letter case put
\* before it does not change the tree mermaidToData returns.
C15_HeaderOptional ==
    (AfterSetMermaid /\ Has(parsed, "nodeData")) =>
        \A h \in HeaderForms : SameBehindHeader(h)

\* C15 amended: when the first non-blank line of the text is not itself a
\* header line, a header line in any letter case put before the text does
\* not change the tree mermaidToData returns.
C15_HeaderOptionalOnce ==
    (AfterSetMermaid /\ Has(parsed, "nodeData") /\ startIdxOf(linesOf(input)) = 0) =>
        \A h \in HeaderForms : SameBehindHeader(h)

\* an outline of three lines without a header was parsed to the tree it
\* also gives behind an upper-case header
C15_Witness ==
    /\ op = "import"
    /\ Has(parsed, "nodeData")
    /\ startIdxOf(linesOf(input)) = 0
    /\ Len(InputLines) = 3
    /\ Len(NodesPreOrder(parsed.nodeData)) = 3
    /\ SameBehindHeader(<<"M", "I", "N", "D", "M", "A", "P">>)

\* the expanded flag of the node at path p of the tree handed to the widget
\* is the flag of a node of the previous tree among those at the indices ks
FlagOfOneOf(p, ks) ==
    LET nodes == NodesPreOrder(prev.nodeData)
    IN  \E k \in ks : NodeAt(live.nodeData, p).expanded = expandedOrTrue(nodes[k])

\* the node at path p of the parsed tree got its flag by the precedence rule:
\* from the previous node with its id, else from a previous node with its
\* topic, else the default
ByPrecedence(p) ==
    LET nodes == NodesPreOrder(prev.nodeData)
        n == NodeAt(parsed.nodeData, p)
        sameId == {k \in 1..Len(nodes) : nodes[k].id = n.id}
        sameTopic == {k \in 1..Len(nodes) : nodes[k].topic = n.topic}
    IN  IF sameId # {} THEN FlagOfOneOf(p, sameId)
        ELSE IF sameTopic # {} THEN FlagOfOneOf(p, sameTopic)
        ELSE NodeAt(live.nodeData, p).expanded = TRUE

\* C16: reconciler precedence: every node of the freshly parsed tree gets the
\* expanded value recorded for the previous node with the same id if there
\* is one, else the value recorded for a previous node with the same topic
\* if there is one, the empty topic included, else the parser default true.
C16_Precedence ==
    Reconciled => \A p \in PathsOf(parsed.nodeData) : ByPrecedence(p)

\* the reconciler matched the node at path p of the parsed tree by its
\* topic: no previous node has its id, its topic is not empty and the
\* previous nodes at the indices returned have that topic
MatchedByTopic(p) ==
    LET nodes == NodesPreOrder(prev.nodeData)
        n == NodeAt(parsed.nodeData, p)
    IN  IF n.id \in IdsOf(prev.nodeData) \/ n.topic = <<>> THEN {}
        ELSE {k \in 1..Len(nodes) : nodes[k].topic = n.topic}

\* the largest element of a non-empty set of indices
Last(ks) == CHOOSE k \in ks : \A j \in ks : j <= k

\* C17: last writer wins for duplicate topics: a new node matched by a topic
\* that one or several nodes of the previous tree have receives the expanded
\* value of the one visited last in the pre-order walk of the previous tree.
C17_LastWriterWins ==
    Reconciled =>
        \A p \in PathsOf(parsed.nodeData) :
            LET ks == MatchedByTopic(p)
            IN  ks # {} =>
                    NodeAt(live.nodeData, p).expanded
                        = expandedOrTrue(NodesPreOrder(prev.nodeData)[Last(ks)])

\* a new node was matched by a topic that two previous nodes have, the
\* first expanded and the last collapsed, and was handed over collapsed
C17_Witness ==
    /\ Reconciled
    /\ \E p \in PathsOf(parsed.nodeData) :
          LET ks == MatchedByTopic(p)
              nodes == NodesPreOrder(prev.nodeData)
          IN  /\ Cardinality(ks) >= 2
              /\ \E k \in ks : nodes[k].expanded = TRUE
              /\ nodes[Last(ks)].expanded = FALSE
              /\ NodeAt(parsed.nodeData, p).expanded = TRUE
              /\ NodeAt(live.nodeData, p).expanded = FALSE

\* a node and its descendants without their expanded flags
RECURSIVE SansExpanded(_)
SansExpanded(node) ==
    LET kids == childrenOf(node)
    IN  [f \in (DOMAIN node) \ {"expanded"} |->
            IF f = "children" THEN [k \in 1..Len(kids) |-> SansExpanded(kids[k])]
            ELSE node[f]]

\* C18: reconciliation changes only expansion flags: the tree setMermaid
\* hands to the widget has the nodes, ids, topics, directions, parent-child
\* relation and child order of mermaidToData's result; every node has a flag.
C18_OnlyFlagsChange ==
    Reconciled =>
        /\ DOMAIN live = DOMAIN parsed
        /\ SansExpanded(live.nodeData) = SansExpanded(parsed.nodeData)
        /\ IsNodeData(live.nodeData)

\* the reconciler changed the flag of a node of a parsed tree of three nodes,
\* one of them with a direction, and nothing else
C18_Witness ==
    /\ Reconciled
    /\ Len(NodesPreOrder(parsed.nodeData)) = 3
    /\ \E p \in PathsOf(parsed.nodeData) :
          /\ Has(NodeAt(parsed.nodeData, p), "direction")
          /\ NodeAt(parsed.nodeData, p).expanded # NodeAt(live.nodeData, p).expanded
    /\ SansExpanded(live.nodeData) = SansExpanded(parsed.nodeData)

\* the ways two trees of the same content differ in presentation state
Presentations == {"flipped", "flagless", "renamed", "all"}

\* the tree with other ids (renamed), the opposite expanded flags (flipped),
\* no expanded flags (flagless), or other ids and opposite flags (all)
RECURSIVE Presented(_, _)
Presented(node, how) ==
    LET kids == childrenOf(node)
        fields == IF how = "flagless" THEN (DOMAIN node) \ {"expanded"} ELSE DOMAIN node
    IN  [f \in fields |->
            IF f = "children" THEN [k \in 1..Len(kids) |-> Presented(kids[k], how)]
            ELSE IF f = "id" /\ how \in {"renamed", "all"} THEN node.id \o <<"x">>
            ELSE IF f = "expanded" /\ how \in {"flipped", "all"} THEN ~node.expanded
            ELSE node[f]]

\* C19: the serialized text does not depend on presentation state: a tree of
\* the same shape, topics and directions with other ids or expanded flags
\* serializes to the same text, and getMermaid leaves the tree it serialized
\* unchanged.
C19_PresentationFree ==
    /\ Serialized =>
          \A how \in Presentations :
              dataToMermaid([nodeData |-> Presented(source.nodeData, how)]) = exported
    /\ op = "getMermaid" => source = currentData

\* a tree of three nodes, one collapsed and one with a direction, was
\* serialized to the text of the tree with other ids and opposite flags
C19_Witness ==
    /\ op = "getMermaid"
    /\ Has(source, "nodeData")
    /\ Len(NodesPreOrder(source.nodeData)) = 3
    /\ \E p \in PathsOf(source.nodeData) :
          /\ Has(NodeAt(source.nodeData, p), "direction")
          /\ Has(NodeAt(source.nodeData, p), "expanded")
          /\ NodeAt(source.nodeData, p).expanded = FALSE
    /\ Presented(source.nodeData, "all") # source.nodeData
    /\ dataToMermaid([nodeData |-> Presented(source.nodeData, "all")]) = exported

\* the escape tokens and the characters they stand for
Escapes ==
    << [token |-> QuotToken, char |-> "\""], [token |-> EntQuot, char |-> "\""],
       [token |-> EntLt, char |-> "<"], [token |-> EntGt, char |-> ">"],
       [token |-> EntAmp, char |-> "&"] >>

\* the text s[k..] with each escape token of s replaced by its character in
\* one pass from left to right: what a replacement writes is not read again
RECURSIVE DecodedOnceFrom(_, _)
DecodedOnceFrom(s, k) ==
    IF k > Len(s) THEN <<>>
    ELSE LET here == {e \in 1..Len(Escapes) :
                         /\ k + Len(Escapes[e].token) - 1 <= Len(s)
                         /\ SubSeq(s, k, k + Len(Escapes[e].token) - 1) = Escapes[e].token}
         IN  IF here = {} THEN <<s[k]>> \o DecodedOnceFrom(s, k + 1)
             ELSE LET e == CHOOSE e \in here : TRUE
                  IN  <<Escapes[e].char>> \o DecodedOnceFrom(s, k + Len(Escapes[e].token))

\* C20: no double decoding: the topic of every line is its content with each
\* escape token decoded exactly once; what one replacement produced is not
\* decoded by a later one ('&amp;quot;' gives '&quot;', not a double quote).
C20_DecodedOnce ==
    LET lines == InputLines
    IN  (AfterSetMermaid /\ Has(parsed, "nodeData") /\ lines # <<>>) =>
            \A j \in 1..Len(lines) :
                /\ PathsOfLine(j) # {}
                /\ \A p \in PathsOfLine(j) :
                       NodeAt(parsed.nodeData, p).topic
                           = DecodedOnceFrom(taggedContent(lines[j]).topic, 1)

\* the line '&amp;quot;' was parsed to a node with topic '&quot;'
C20_Witness ==
    /\ op = "import"
    /\ Has(parsed, "nodeData")
    /\ Len(InputLines) = 2
    /\ taggedContent(InputLines[2]).topic = EntAmp \o <<"q", "u", "o", "t", ";">>
    /\ \A p \in PathsOfLine(2) : NodeAt(parsed.nodeData, p).topic = EntQuot
    /\ PathsOfLine(2) # {}

\* the state of the parsing loop of the last setMermaid call after the first
\* k of the lines were processed, the root line being the first
ParseStateAfter(lines, k) ==
    parseLoop(parseStart(lines[1]), SubSeq(lines, 2, k), seedUsed, 0)

\* the identifiers of the nodes of a tree in depth-first pre-order
IdsPreOrder(node) ==
    LET nodes == NodesPreOrder(node)
    IN  [k \in 1..Len(nodes) |-> nodes[k].id]

\* C21: line order equals rendering order: after each line is processed, the
\* pre-order traversal of the tree built so far visits the nodes in the order
\* of their lines; so does the traversal of the tree mermaidToData returns.
C21_LineOrder ==
    LET lines == InputLines
    IN  (AfterSetMermaid /\ Has(parsed, "nodeData") /\ lines # <<>>) =>
            /\ \A k \in 1..Len(lines) :
                   IdsPreOrder(ParseStateAfter(lines, k).rootNode)
                       = [j \in 1..k |-> LineId(j)]
            /\ IdsPreOrder(parsed.nodeData) = [j \in 1..Len(lines) |-> LineId(j)]
            /\ TopicsPreOrder(parsed.nodeData)
                   = [j \in 1..Len(lines) |-> extractContent(lines[j]).topic]

\* an outline of four lines, one nested under a line that is not the root
\* line and a later one that returns to an earlier level, was parsed to a
\* tree whose pre-order is the order of the lines
C21_Witness ==
    /\ op = "import"
    /\ Has(parsed, "nodeData")
    /\ Len(InputLines) = 4
    /\ \E j \in 3..4 : ExpectedParent(j) = j - 1
    /\ \E j \in 3..4 : ExpectedParent(j) # j - 1
    /\ IdsPreOrder(parsed.nodeData) = [j \in 1..4 |-> LineId(j)]

\* path a leads to a proper ancestor of the node path b leads to
IsAncestorPath(a, b) == Len(a) < Len(b) /\ SubSeq(b, 1, Len(a)) = a

\* the stack invariant in the state st reached after k lines
StackInvariant(st, k) ==
    LET stack == st.stack
        n == Len(stack)
    IN  /\ ~st.threw
        /\ n >= 1
        /\ stack[1].node = <<>>
        /\ NodeAt(st.rootNode, stack[1].node).id = RootId
        /\ NodeAt(st.rootNode, stack[n].node).id = LineId(k)
        /\ \A i \in 1..(n - 1) :
               /\ stack[i].indent < stack[i + 1].indent
               /\ IsAncestorPath(stack[i].node, stack[i + 1].node)

\* C30: parsing stack invariant: after each line is processed the stack is
\* non-empty, its bottom entry is the root node, its top entry is the node
\* just created, the recorded indentation widths strictly increase from
\* bottom to top and the stacked nodes form an ancestor chain of the top.
C30_StackInvariant ==
    LET lines == InputLines
    IN  (AfterSetMermaid /\ lines # <<>>) =>
            \A k \in 1..Len(lines) : StackInvariant(ParseStateAfter(lines, k), k)

\* after the last of four lines the stack held three nodes, and after an
\* earlier line that is indented no more than the root line it held the
\* root, put back with width -1, and the node of that line
C30_Witness ==
    /\ op = "import"
    /\ Len(InputLines) = 4
    /\ Len(ParseStateAfter(InputLines, 4).stack) = 3
    /\ StackInvariant(ParseStateAfter(InputLines, 4), 4)
    /\ \E k \in 2..3 :
          /\ IndentOf(k) <= IndentOf(1)
          /\ Len(ParseStateAfter(InputLines, k).stack) = 2
          /\ ParseStateAfter(InputLines, k).stack[1].indent = -1


(***************************************************************************)
(* The page (src/app/page.tsx): the cloud session, the guard around an     *)
(* applied value, undo and redo, and the list of mindmaps.  The MindCache  *)
(* client is modelled at its interface: one store of values and tags that  *)
(* every connected client reads and writes; listeners run inside the       *)
(* write that notifies them; a client that was disconnected keeps the      *)
(* list of keys it had and its writes reach nobody.                        *)
(***************************************************************************)

\* the largest number of user and remote events of one behaviour
MaxEvents == 3

\* the number of names a user may type for a mindmap
MaxNames == 2

\* the truthiness of a string, null or undefined
truthy(v) == v # Null /\ v # <<>>

\* 'mindmap-'
MindmapPrefix == <<"m", "i", "n", "d", "m", "a", "p", "-">>

\* 'mindmap-mermaid'
DefaultKey == MindmapPrefix \o <<"m", "e", "r", "m", "a", "i", "d">>

LowerAlnum ==
    {"a", "b", "c", "d", "e", "f", "g", "h", "i", "j", "k", "l", "m", "n", "o", "p",
     "q", "r", "s", "t", "u", "v", "w", "x", "y", "z",
     "0", "1", "2", "3", "4", "5", "6", "7", "8", "9"}

\* s.replace(/[^a-z0-9]/g, '-')
sanitize(s) == [k \in 1..Len(s) |-> IF s[k] \in LowerAlnum THEN s[k] ELSE "-"]

\* `mindmap-${name.toLowerCase().replace(/[^a-z0-9]/g, '-')}`
keyOfName(name) == MindmapPrefix \o sanitize(toLowerCase(name))

\* key.replace(/^mindmap-/, '')
displayName(key) ==
    IF startsWith(key, MindmapPrefix) THEN SubSeq(key, Len(MindmapPrefix) + 1, Len(key))
    ELSE key

\* 'mindmap-' + newName.replace(/^mindmap-/i, '').toLowerCase().replace(...)
renamedKey(newName) ==
    LET bare == IF startsWith(toLowerCase(newName), MindmapPrefix)
                THEN SubSeq(newName, Len(MindmapPrefix) + 1, Len(newName))
                ELSE newName
    IN  MindmapPrefix \o sanitize(toLowerCase(bare))

\* `mindmap\n  root(("${name}"))`
newMindmapText(name) ==
    Header \o <<"\n", " ", " ">> \o RootWord \o <<"(", "(", "\"">> \o name
           \o <<"\"", ")", ")">>

\* the names a user types
NamePool == << <<"a">>, <<"X">>, <<"A">> >>

Names == {NamePool[i] : i \in 1..Min(MaxNames, Len(NamePool))}

\* the keys the store may hold, in the order getKeysByTag lists them
KeyOrder == <<DefaultKey, keyOfName(<<"a">>), keyOfName(<<"X">>)>>

KeyPool == {KeyOrder[i] : i \in 1..Len(KeyOrder)}

\* mc.getKeysByTag(TAG_MINDMAP) on a store
keysByTag(st) == SelectSeq(KeyOrder, LAMBDA k : st[k] # Null)

\* the keys of a list
KeySet(keys) == {keys[i] : i \in 1..Len(keys)}

\* the template the widget shows when it is given no outline (reduced to a
\* root, one branch and one leaf)
defaultData ==
    [nodeData |->
        [id |-> RootId, topic |-> <<"M">>, expanded |-> TRUE, children |->
            << [id |-> <<"b", "1">>, topic |-> <<"B">>, direction |-> 0,
                expanded |-> TRUE, children |->
                   << [id |-> <<"s", "1">>, topic |-> <<"S">>, expanded |-> TRUE,
                       children |-> <<>>] >>] >>]]

\* the leaf a user adds in the widget
NewLeaf == [id |-> <<"w">>, topic |-> <<"b">>, expanded |-> TRUE, children |-> <<>>]

\* a root alone, and a root with that leaf
rootOnly(topic) ==
    [nodeData |-> [id |-> RootId, topic |-> topic, expanded |-> TRUE,
                   children |-> <<>>]]

rootAndLeaf(topic) ==
    [nodeData |-> [id |-> RootId, topic |-> topic, expanded |-> TRUE,
                   children |-> <<NewLeaf>>]]

\* two trees other clients hold
RootOnly == rootOnly(<<"a">>)

RootAndLeaf == rootAndLeaf(<<"a">>)

\* the values another client writes under a key
RemoteValues == {<<>>, dataToMermaid(RootOnly), dataToMermaid(RootAndLeaf)}

\* a structural edit in the widget: a leaf is added under a bare root, the
\* last branch of any other root is removed
editedData(data) ==
    LET kids == childrenOf(data.nodeData)
    IN  [data EXCEPT !.nodeData.children =
            IF kids = <<>>
            THEN <<NewLeaf>>
            ELSE SubSeq(kids, 1, Len(kids) - 1)]

\* processNode of the component's effects: only the root stays expanded
RECURSIVE collapseNode(_, _)
collapseNode(node, depth) ==
    LET kids == childrenOf(node)
        flagged == SetField(node, "expanded", depth = 0)
    IN  IF Has(node, "children")
        THEN [flagged EXCEPT !.children =
                 [k \in 1..Len(kids) |-> collapseNode(kids[k], depth + 1)]]
        ELSE flagged

\* the root topics of the page's trees: of the template, of the placeholder,
\* of other clients' trees and of new mindmaps
PageTopics ==
    {defaultData.nodeData.topic, placeholderData.nodeData.topic, <<"a">>} \cup Names

\* the texts the store may hold
PageTexts ==
    {<<>>} \cup {newMindmapText(n) : n \in Names}
           \cup {dataToMermaid(rootOnly(t)) : t \in PageTopics}
           \cup {dataToMermaid(rootAndLeaf(t)) : t \in PageTopics}

\* mermaidToData on those texts, tabulated
parsedText == [m \in PageTexts |-> mermaidToData(m, 0)]

\* what the widget holds once it was created from, or refreshed with, the
\* initialMermaid prop
shownData(mermaid) ==
    IF truthy(mermaid)
    THEN CHOOSE shown \in
             { normalizeMindElixirData(
                   IF Has(newData, "nodeData")
                   THEN [newData EXCEPT !.nodeData = collapseNode(@, 0)]
                   ELSE newData) : newData \in {parsedText[mermaid]} } : TRUE
    ELSE normalizeMindElixirData(defaultData)

\* what the widget holds after setMermaid(mermaid)
refreshedData(data, mermaid) ==
    LET newData == parsedText[mermaid]
    IN  IF Has(newData, "error") THEN data ELSE reconcile(data, newData)

\* what the widget holds after setMermaid was called with each of the texts
RECURSIVE setMermaidEach(_, _)
setMermaidEach(data, texts) ==
    IF texts = <<>> THEN data
    ELSE setMermaidEach(refreshedData(data, Head(texts)), Tail(texts))

\* the refs a handler passes on to its next statement, and the texts it
\* gave to setMermaid so far
syncState ==
    [syncing |-> syncingFromCloud, timers |-> clearTimers, lastSent |-> lastSentMermaid,
     texts |-> <<>>]

\* syncingFromCloud.current = true; setMermaid(mermaid); setTimeout(clear, 100)
applyGuarded(s, mermaid) ==
    [s EXCEPT !.syncing = TRUE, !.timers = @ + 1, !.texts = Append(@, mermaid)]

\* the listener of mc.subscribe(activeMindmap, ...)
onStoreValue(s, value) ==
    IF value = s.lastSent THEN s
    ELSE IF mounted /\ ~s.syncing
         THEN applyGuarded([s EXCEPT !.lastSent = value],
                           IF truthy(value) THEN value ELSE <<>>)
         ELSE s

\* handleKeyDown after undoAll or redoAll: the value under the key the
\* handler captured is applied
applyStored(s, st) ==
    LET mermaid == st[firstActive]
    IN  IF truthy(mermaid) /\ mounted THEN applyGuarded(s, mermaid) ELSE s

\* the refs and the tree after a handler
Settle(s) ==
    /\ syncingFromCloud' = s.syncing
    /\ clearTimers' = s.timers
    /\ lastSentMermaid' = s.lastSent
    /\ live' = setMermaidEach(live, s.texts)
    /\ applied' = IF s.texts = <<>> THEN Null ELSE s.texts[Len(s.texts)]

\* what a change notification leaves of the store and of the session
sessionState ==
    [store |-> store, lastSent |-> lastSentMermaid, undo |-> undoStack,
     redo |-> redoStack, refresh |-> refreshPending]

\* the write of handleDataChange: the serialized tree becomes the last sent
\* value and the value under the active key; the store's listeners run (the
\* key listener sees the value just sent, the global one arms the refresh)
writeBack(data) ==
    IF cloudConnected /\ mounted
    THEN LET mermaid == dataToMermaid(data)
         IN  [store |-> [store EXCEPT ![activeMindmap] = mermaid],
              lastSent |-> mermaid,
              undo |-> Append(undoStack, store[activeMindmap]),
              redo |-> <<>>,
              refresh |-> TRUE]
    ELSE sessionState

\* a handleDataChange without the guard
handleDataChangeUnguarded(syncing, data) == writeBack(data)

\* handleDataChange
handleDataChange(syncing, data) ==
    IF syncing THEN sessionState ELSE writeBack(data)

\* the debounced body of refreshMindmapList, for the keys its client lists;
\* the writes of a disconnected client reach nobody
refreshOutcome(keys, connected) ==
    IF keys = mindmapKeys
    THEN [keys |-> mindmapKeys, active |-> activeMindmap, store |-> store, llm |-> llm]
    ELSE IF keys = <<>>
         THEN [keys |-> <<DefaultKey>>, active |-> DefaultKey,
               store |-> IF connected THEN [store EXCEPT ![DefaultKey] = <<>>] ELSE store,
               llm |-> IF connected THEN llm \cup {DefaultKey} ELSE llm]
         ELSE LET activeKey == IF activeMindmap \in KeySet(keys) THEN activeMindmap
                               ELSE keys[1]
              IN  [keys |-> keys, active |-> activeKey, store |-> store,
                   llm |-> IF connected
                           THEN (llm \ KeySet(keys)) \cup
                                {k \in {activeKey} : store[k] # Null}
                           ELSE llm]

\* the stores a session may find
InitialStores ==
    { [k \in KeyPool |-> Null],
      [k \in KeyPool |-> IF k = DefaultKey THEN <<>> ELSE Null],
      [k \in KeyPool |-> IF k = DefaultKey THEN dataToMermaid(RootOnly)
                         ELSE IF k = KeyOrder[2] THEN dataToMermaid(RootAndLeaf)
                         ELSE Null] }

\* after authentication: the client exists, waitForSync is pending, the
\* page shows the loading screen
PageInit ==
    /\ store \in InitialStores
    /\ activeMindmap \in {DefaultKey} \cup {k \in KeyPool : store[k] # Null}
    /\ firstActive = activeMindmap
    /\ llm = {k \in {activeMindmap} : store[k] # Null}
    /\ mindmapKeys = <<>>
    /\ cloudConnected = FALSE
    /\ initialMermaid = Null
    /\ syncingFromCloud = FALSE
    /\ clearTimers = 0
    /\ skipCloudLoad = FALSE
    /\ lastSentMermaid = Null
    /\ refreshPending = FALSE
    /\ oldRefresh = <<>>
    /\ undoStack = <<>>
    /\ redoStack = <<>>
    /\ applied = Null
    /\ events = 0
    /\ mounted = FALSE
    /\ live = NoData
    /\ op = "init"
    /\ initialData = NoData
    /\ pending = <<>>
    /\ rng = 0
    /\ exported = <<>>
    /\ source = NoData
    /\ prev = NoData
    /\ input = <<>>
    /\ imported = <<>>
    /\ parsed = NoData
    /\ seedUsed = 0
    /\ raised = FALSE
    /\ cycles = 0

\* the cleanup of the cloud effect and its next run, after activeMindmap
\* changed: the subscriptions end, the client is disconnected, a new client
\* waits for its sync; a refresh timer that is armed stays armed; the widget
\* is created again (key={activeMindmap}) from the initialMermaid prop
SwitchSession(armed) ==
    /\ cloudConnected' = FALSE
    /\ lastSentMermaid' = Null
    /\ undoStack' = <<>>
    /\ redoStack' = <<>>
    /\ refreshPending' = FALSE
    /\ oldRefresh' = IF armed THEN <<keysByTag(store')>> ELSE oldRefresh
    /\ live' = IF mounted THEN shownData(initialMermaid') ELSE live

\* the continuation of mc.waitForSync()
WaitForSyncResolved ==
    /\ ~cloudConnected
    /\ LET ensured == IF store[activeMindmap] = Null
                      THEN [store EXCEPT ![activeMindmap] = <<>>] ELSE store
           cloudMermaid == ensured[activeMindmap]
           loaded == IF skipCloudLoad THEN initialMermaid
                     ELSE IF truthy(cloudMermaid) THEN cloudMermaid ELSE <<>>
       IN  /\ store' = ensured
           /\ initialMermaid' = loaded
           /\ lastSentMermaid' = IF ~skipCloudLoad /\ truthy(cloudMermaid)
                                 THEN cloudMermaid ELSE Null
           /\ live' = IF ~mounted \/ loaded # initialMermaid THEN shownData(loaded)
                      ELSE live
    /\ skipCloudLoad' = FALSE
    /\ cloudConnected' = TRUE
    /\ refreshPending' = TRUE
    /\ mounted' = TRUE
    /\ applied' = Null
    /\ op' = "sync"
    /\ UNCHANGED <<activeMindmap, firstActive, mindmapKeys, syncingFromCloud, clearTimers,
                   llm, oldRefresh, undoStack, redoStack, events>>
    /\ UNCHANGED codecVars

\* the refresh timer of the running session fires
RefreshTimer ==
    /\ refreshPending
    /\ LET out == refreshOutcome(keysByTag(store), TRUE)
           rearmed == out.store # store \/ out.llm # llm
       IN  /\ mindmapKeys' = out.keys
           /\ activeMindmap' = out.active
           /\ store' = out.store
           /\ llm' = out.llm
           /\ IF out.active # activeMindmap
              THEN SwitchSession(rearmed)
              ELSE /\ refreshPending' = rearmed
                   /\ UNCHANGED <<cloudConnected, lastSentMermaid, undoStack, redoStack,
                                  oldRefresh, live>>
    /\ applied' = Null
    /\ op' = "refresh"
    /\ UNCHANGED <<firstActive, initialMermaid, syncingFromCloud, clearTimers,
                   skipCloudLoad, events, mounted>>
    /\ UNCHANGED codecVars

\* the refresh timer of a session that was cleaned up fires
OldRefreshTimer ==
    /\ oldRefresh # <<>>
    /\ LET out == refreshOutcome(oldRefresh[1], FALSE)
       IN  /\ mindmapKeys' = out.keys
           /\ activeMindmap' = out.active
           /\ IF out.active # activeMindmap
              THEN /\ cloudConnected' = FALSE
                   /\ lastSentMermaid' = Null
                   /\ undoStack' = <<>>
                   /\ redoStack' = <<>>
                   /\ refreshPending' = FALSE
                   /\ oldRefresh' = IF refreshPending THEN <<keysByTag(store)>> ELSE <<>>
                   /\ live' = IF mounted THEN shownData(initialMermaid) ELSE live
              ELSE /\ oldRefresh' = <<>>
                   /\ UNCHANGED <<cloudConnected, lastSentMermaid, undoStack, redoStack,
                                  refreshPending, live>>
    /\ applied' = Null
    /\ op' = "oldRefresh"
    /\ UNCHANGED <<firstActive, initialMermaid, syncingFromCloud, clearTimers,
                   skipCloudLoad, store, llm, events, mounted>>
    /\ UNCHANGED codecVars

\* setTimeout(() => { syncingFromCloud.current = false; }, 100) fires
ClearTimer ==
    /\ clearTimers > 0
    /\ clearTimers' = clearTimers - 1
    /\ syncingFromCloud' = FALSE
    /\ applied' = Null
    /\ op' = "clear"
    /\ UNCHANGED <<activeMindmap, firstActive, mindmapKeys, cloudConnected, initialMermaid,
                   skipCloudLoad, lastSentMermaid, store, llm, refreshPending, oldRefresh,
                   undoStack, redoStack, events, mounted, live>>
    /\ UNCHANGED codecVars

\* the user edits the tree: the widget fires 'operation', handleOperation
\* calls handleDataChange
WidgetEdit ==
    /\ mounted
    /\ events < MaxEvents
    /\ LET data == editedData(live)
           out == handleDataChange(syncingFromCloud, data)
       IN  /\ live' = data
           /\ store' = out.store
           /\ lastSentMermaid' = out.lastSent
           /\ undoStack' = out.undo
           /\ redoStack' = out.redo
           /\ refreshPending' = out.refresh
    /\ applied' = Null
    /\ op' = "edit"
    /\ events' = events + 1
    /\ UNCHANGED <<activeMindmap, firstActive, mindmapKeys, cloudConnected, initialMermaid,
                   syncingFromCloud, clearTimers, skipCloudLoad, llm, oldRefresh, mounted>>
    /\ UNCHANGED codecVars

\* another client writes a value under the active key: the listeners of
\* the running session are notified
RemoteUpdate ==
    /\ cloudConnected
    /\ events < MaxEvents
    /\ \E value \in RemoteValues :
          /\ store' = [store EXCEPT ![activeMindmap] = value]
          /\ Settle(onStoreValue(syncState, value))
    /\ refreshPending' = TRUE
    /\ op' = "remote"
    /\ events' = events + 1
    /\ UNCHANGED <<activeMindmap, firstActive, mindmapKeys, cloudConnected, initialMermaid,
                   skipCloudLoad, llm, oldRefresh, undoStack, redoStack, mounted>>
    /\ UNCHANGED codecVars

\* Cmd+Z: undoAll restores the value before the client's last write, the
\* listeners are notified, the handler applies the stored value
Undo ==
    /\ cloudConnected
    /\ events < MaxEvents
    /\ undoStack # <<>>
    /\ LET restored == undoStack[Len(undoStack)]
           after == [store EXCEPT ![activeMindmap] = restored]
       IN  /\ store' = after
           /\ Settle(applyStored(onStoreValue(syncState, restored), after))
    /\ undoStack' = SubSeq(undoStack, 1, Len(undoStack) - 1)
    /\ redoStack' = Append(redoStack, store[activeMindmap])
    /\ refreshPending' = TRUE
    /\ op' = "undo"
    /\ events' = events + 1
    /\ UNCHANGED <<activeMindmap, firstActive, mindmapKeys, cloudConnected, initialMermaid,
                   skipCloudLoad, llm, oldRefresh, mounted>>
    /\ UNCHANGED codecVars

\* Cmd+Shift+Z: redoAll writes the undone value again
Redo ==
    /\ cloudConnected
    /\ events < MaxEvents
    /\ redoStack # <<>>
    /\ LET restored == redoStack[Len(redoStack)]
           after == [store EXCEPT ![activeMindmap] = restored]
       IN  /\ store' = after
           /\ Settle(applyStored(onStoreValue(syncState, restored), after))
    /\ redoStack' = SubSeq(redoStack, 1, Len(redoStack) - 1)
    /\ undoStack' = Append(undoStack, store[activeMindmap])
    /\ refreshPending' = TRUE
    /\ op' = "redo"
    /\ events' = events + 1
    /\ UNCHANGED <<activeMindmap, firstActive, mindmapKeys, cloudConnected, initialMermaid,
                   skipCloudLoad, llm, oldRefresh, mounted>>
    /\ UNCHANGED codecVars

\* handleCreateMindmap, for a name the prompt returned
HandleCreateMindmap ==
    /\ cloudConnected
    /\ events < MaxEvents
    /\ \E name \in Names :
          LET key == keyOfName(name)
          IN  /\ store[key] = Null
              /\ store' = [store EXCEPT ![key] = newMindmapText(name)]
              /\ llm' = (llm \ {activeMindmap}) \cup {key}
              /\ activeMindmap' = key
              /\ initialMermaid' = newMindmapText(name)
    /\ SwitchSession(TRUE)
    /\ applied' = Null
    /\ op' = "create"
    /\ events' = events + 1
    /\ UNCHANGED <<firstActive, mindmapKeys, syncingFromCloud, clearTimers, skipCloudLoad,
                   mounted>>
    /\ UNCHANGED codecVars

\* handleSwitchMindmap, for a key of the menu
HandleSwitchMindmap ==
    /\ cloudConnected
    /\ events < MaxEvents
    /\ \E key \in KeySet(mindmapKeys) :
          /\ key # activeMindmap
          /\ llm' = (llm \ {activeMindmap}) \cup {k \in {key} : store[k] # Null}
          /\ activeMindmap' = key
    /\ store' = store
    /\ initialMermaid' = initialMermaid
    /\ SwitchSession(TRUE)
    /\ applied' = Null
    /\ op' = "switch"
    /\ events' = events + 1
    /\ UNCHANGED <<firstActive, mindmapKeys, syncingFromCloud, clearTimers, skipCloudLoad,
                   mounted>>
    /\ UNCHANGED codecVars

\* handleRemoveMindmap, for a key of the menu, once the user confirmed
HandleRemoveMindmap ==
    /\ cloudConnected
    /\ events < MaxEvents
    /\ Len(mindmapKeys) > 1
    /\ \E keyToDelete \in KeySet(mindmapKeys) :
          LET deleted == [store EXCEPT ![keyToDelete] = Null]
              remaining == SelectSeq(mindmapKeys, LAMBDA k : k # keyToDelete)
          IN  /\ store' = deleted
              /\ initialMermaid' = initialMermaid
              /\ IF keyToDelete = activeMindmap
                 THEN /\ llm' = (llm \ {keyToDelete}) \cup
                                {k \in {remaining[1]} : deleted[k] # Null}
                      /\ activeMindmap' = remaining[1]
                      /\ SwitchSession(TRUE)
                 ELSE /\ llm' = llm \ {keyToDelete}
                      /\ refreshPending' = TRUE
                      /\ UNCHANGED <<activeMindmap, cloudConnected, lastSentMermaid,
                                     undoStack, redoStack, oldRefresh, live>>
    /\ applied' = Null
    /\ op' = "remove"
    /\ events' = events + 1
    /\ UNCHANGED <<firstActive, mindmapKeys, syncingFromCloud, clearTimers, skipCloudLoad,
                   mounted>>
    /\ UNCHANGED codecVars

\* handleRenameMindmap, for a name the prompt returned
HandleRenameMindmap ==
    /\ cloudConnected
    /\ events < MaxEvents
    /\ \E newName \in Names :
          LET newKey == renamedKey(newName)
              content == store[activeMindmap]
              kept == IF truthy(content) THEN content ELSE <<>>
          IN  /\ newName # displayName(activeMindmap)
              /\ store[newKey] = Null
              /\ store' = [store EXCEPT ![newKey] = kept, ![activeMindmap] = Null]
              /\ llm' = (llm \ {activeMindmap}) \cup {newKey}
              /\ initialMermaid' = kept
              /\ activeMindmap' = newKey
    /\ skipCloudLoad' = TRUE
    /\ SwitchSession(TRUE)
    /\ applied' = Null
    /\ op' = "rename"
    /\ events' = events + 1
    /\ UNCHANGED <<firstActive, mindmapKeys, syncingFromCloud, clearTimers, mounted>>
    /\ UNCHANGED codecVars

PageNext ==
    \/ WaitForSyncResolved
    \/ RefreshTimer
    \/ OldRefreshTimer
    \/ ClearTimer
    \/ WidgetEdit
    \/ RemoteUpdate
    \/ Undo
    \/ Redo
    \/ HandleCreateMindmap
    \/ HandleSwitchMindmap
    \/ HandleRemoveMindmap
    \/ HandleRenameMindmap

PageSpec == PageInit /\ [][PageNext]_vars

\* the event loop runs every callback that is due
PageLive ==
    /\ PageSpec
    /\ WF_vars(WaitForSyncResolved)
    /\ WF_vars(RefreshTimer)
    /\ WF_vars(OldRefreshTimer)
    /\ WF_vars(ClearTimer)


(***************************************************************************)
(* Properties of the page                                                  *)
(***************************************************************************)

\* C22: while syncingFromCloud is set, a change notification from the widget
\* (handleDataChange) writes nothing to the store and leaves the last sent
\* value as it was
C22_NoWriteBackWhileSyncing ==
    [][(op' = "edit" /\ syncingFromCloud) => UNCHANGED <<store, lastSentMermaid>>]_vars

\* a connected session dropped the notification of an edit that changed the
\* serialized tree
C22_Witness ==
    /\ op = "edit"
    /\ syncingFromCloud
    /\ cloudConnected
    /\ store[activeMindmap] # dataToMermaid(live)

\* the value the running session knows the store to hold: the one it sent
\* last, or the one it loaded while it has sent none
KnownValue == IF lastSentMermaid # Null THEN lastSentMermaid ELSE initialMermaid

\* C23: a notification for the active key whose value equals the value this
\* client sent last, or loaded last, calls no setMermaid, does not set
\* syncingFromCloud and leaves the tree as it was
C23_EchoSuppressed ==
    [][(op' = "remote" /\ store'[activeMindmap] = KnownValue)
          => (applied' = Null /\ UNCHANGED <<syncingFromCloud, live>>)]_vars

\* the store holds under the active key what the tree was last given, or
\* what the tree serializes to
LiveFollowsStore ==
    applied = store[activeMindmap] \/ dataToMermaid(live) = store[activeMindmap]

\* C24: a notification for the active key whose value differs from the
\* value sent last is eventually applied to the tree
C24_RemoteEventuallyApplied ==
    (op = "remote" /\ store[activeMindmap] # lastSentMermaid) ~> LiveFollowsStore

\* C25: while the client is connected, an edit the widget reported is
\* eventually written to the store under the active key
C25_LocalEditWritten ==
    (op = "edit" /\ cloudConnected) ~> (store[activeMindmap] = dataToMermaid(live))

\* C26: syncingFromCloud stays set as long as the clear timer of an apply is
\* pending
C26_GuardCoversApply == clearTimers > 0 => syncingFromCloud

\* C27: the value an undo or redo key press gives to setMermaid is the one
\* the store holds under the active key
C27_UndoActsOnActive ==
    (op \in {"undo", "redo"} /\ applied # Null) => applied = store[activeMindmap]

\* C28: a callback of a session that was cleaned up changes neither
\* initialMermaid, the active key, the key list, the store nor the tree
C28_TornDownSessionSilent ==
    [][op' = "oldRefresh"
          => UNCHANGED <<initialMermaid, activeMindmap, mindmapKeys, store, live>>]_vars

\* C29: after create, switch, delete, rename and list refresh the LLMRead
\* and LLMWrite tags are on the active key and on no other key
C29_OnlyActiveTagged ==
    op \in {"create", "switch", "remove", "rename", "refresh"} => llm = {activeMindmap}

====
